---- MODULE Spec2Model ----
(***************************************************************************)
(* A model of scraper.py: the two-phase pager (get_data_for_course), the   *)
(* filter traversal (run_scraper), the long-to-wide reshape and the        *)
(* destructive publish (upload_to_supabase, recreate_table_for_upload) and *)
(* the publish loop of __main__.                                           *)
(*                                                                         *)
(* Text is modelled as a sequence of one-character strings, so that the    *)
(* string operations of the source (trim, the date pattern, strptime,      *)
(* replace, split, the regular expressions of sanitize_table_name) are     *)
(* computed character by character.                                        *)
(***************************************************************************)
EXTENDS Integers, Sequences, FiniteSets, TLC

\* ------------------------------------------------------------------ bounds

\* The largest number of pages of a synthetic course.
MaxPages == 3

\* ------------------------------------------------------------------- text

\* The characters the model's texts are written in, in code-point order.
Alphabet ==
    << " ", "&", "(", ")", "-", "/",
       "0", "1", "2", "3", "4", "5", "6", "7", "8", "9",
       "A", "B", "C", "D", "E", "F", "G", "H", "I", "J", "K", "L", "M",
       "N", "O", "P", "Q", "R", "S", "T", "U", "V", "W", "X", "Y", "Z",
       "_",
       "a", "b", "c", "d", "e", "f", "g", "h", "i", "j", "k", "l", "m",
       "n", "o", "p", "q", "r", "s", "t", "u", "v", "w", "x", "y", "z" >>

Ord(c) == CHOOSE i \in 1..Len(Alphabet) : Alphabet[i] = c

Digits == {"0", "1", "2", "3", "4", "5", "6", "7", "8", "9"}

DigitVal(c) == Ord(c) - Ord("0")

\* Python's str < str and pandas' sort of object columns: by code point,
\* a proper prefix first.
RECURSIVE StrLess(_, _)
StrLess(s, t) ==
    IF s = <<>> THEN t # <<>>
    ELSE IF t = <<>> THEN FALSE
    ELSE IF Head(s) # Head(t) THEN Ord(Head(s)) < Ord(Head(t))
    ELSE StrLess(Tail(s), Tail(t))

RECURSIVE TrimLeft(_)
TrimLeft(s) ==
    IF s # <<>> /\ Head(s) = " " THEN TrimLeft(Tail(s)) ELSE s

RECURSIVE TrimRight(_)
TrimRight(s) ==
    IF s # <<>> /\ s[Len(s)] = " " THEN TrimRight(SubSeq(s, 1, Len(s) - 1)) ELSE s

\* JavaScript's String.prototype.trim and Python's str.strip().
Trim(s) == TrimRight(TrimLeft(s))

\* ------------------------------------------------------------------ dates

\* /^\d{2}\/\d{2}\/\d{4}$/ of the in-page extractor.
IsDateHeader(s) ==
    /\ Len(s) = 10
    /\ \A i \in {1, 2, 4, 5, 7, 8, 9, 10} : s[i] \in Digits
    /\ s[3] = "/"
    /\ s[6] = "/"

DayOf(s) == 10 * DigitVal(s[1]) + DigitVal(s[2])
MonthOf(s) == 10 * DigitVal(s[4]) + DigitVal(s[5])
YearOf(s) ==
    1000 * DigitVal(s[7]) + 100 * DigitVal(s[8]) + 10 * DigitVal(s[9]) + DigitVal(s[10])

IsLeap(y) == (y % 4 = 0 /\ y % 100 # 0) \/ y % 400 = 0

DaysInMonth(m, y) ==
    IF m = 2 THEN (IF IsLeap(y) THEN 29 ELSE 28)
    ELSE IF m \in {4, 6, 9, 11} THEN 30 ELSE 31

\* The calendar key pd.to_datetime(d, format='%d/%m/%Y') orders by.
DateKey(s) == << YearOf(s), MonthOf(s), DayOf(s) >>

KeyLess(a, b) ==
    \/ a[1] < b[1]
    \/ a[1] = b[1] /\ a[2] < b[2]
    \/ a[1] = b[1] /\ a[2] = b[2] /\ a[3] < b[3]

\* pd.to_datetime raises for a text that is no calendar day, or a day
\* outside the range of a nanosecond Timestamp.
to_datetime_ok(s) ==
    /\ MonthOf(s) \in 1..12
    /\ DayOf(s) \in 1..DaysInMonth(MonthOf(s), YearOf(s))
    /\ ~KeyLess(DateKey(s), <<1677, 9, 22>>)
    /\ ~KeyLess(<<2262, 4, 11>>, DateKey(s))

\* ------------------------------------------------- the in-page extractor

\* The statuses, as the texts the script returns.
S_P == <<"P">>
S_A == <<"A">>
S_NA == <<"N", "A">>
S_Unknown == <<"U", "n", "k", "n", "o", "w", "n">>

\* Mutant: the x marker is looked for before the check marker.
classify_x_first(cell) ==
    IF cell.x THEN S_A
    ELSE IF cell.check THEN S_P
    ELSE IF Trim(cell.text) = <<"N", "A">> THEN S_NA
    ELSE S_Unknown

\* Status of one cell: the check marker, then the x marker, then the text NA.
classify(cell) ==
    IF cell.check THEN S_P
    ELSE IF cell.x THEN S_A
    ELSE IF Trim(cell.text) = <<"N", "A">> THEN S_NA
    ELSE S_Unknown

\* dateHeaderMap after the first n header cells: the date texts in the order
\* of their first occurrence, each with the index of its last occurrence
\* (Object.entries of an object with non-integer keys).
RECURSIVE dateHeaderMap(_, _)
dateHeaderMap(headers, n) ==
    IF n = 0 THEN <<>>
    ELSE LET m == dateHeaderMap(headers, n - 1)
             t == Trim(headers[n])
         IN  IF ~IsDateHeader(t) THEN m
             ELSE IF \E k \in DOMAIN m : m[k][1] = t
                  THEN [k \in DOMAIN m |-> IF m[k][1] = t THEN <<t, n>> ELSE m[k]]
                  ELSE Append(m, <<t, n>>)

\* record.attendance_data of one row: an entry per date column whose cell
\* exists in the row, in the order of dateHeaderMap.
RECURSIVE attendance_data(_, _, _)
attendance_data(cells, m, n) ==
    IF n = 0 THEN <<>>
    ELSE LET rest == attendance_data(cells, m, n - 1)
             date == m[n][1]
             columnIndex == m[n][2]
         IN  IF columnIndex <= Len(cells)
             THEN Append(rest, <<date, classify(cells[columnIndex])>>)
             ELSE rest

\* The records of the first n body rows; a row of fewer than 2 cells is skipped.
RECURSIVE studentRows(_, _)
studentRows(dom, n) ==
    IF n = 0 THEN <<>>
    ELSE LET rest == studentRows(dom, n - 1)
             cells == dom.rows[n]
             m == dateHeaderMap(dom.headers, Len(dom.headers))
         IN  IF Len(cells) < 2 THEN rest
             ELSE Append(rest,
                    [roll_no |-> Trim(cells[1].text),
                     student_name |-> Trim(cells[2].text),
                     attendance_data |-> attendance_data(cells, m, Len(m))])

\* page.evaluate(...) of get_data_for_course on the rendered table dom.
extractPage(dom) == studentRows(dom, Len(dom.rows))

\* --------------------------------------------------------- synthetic pages

T_RollNo == <<"R", "o", "l", "l", " ", "N", "o">>
T_Name == <<"N", "a", "m", "e">>
T_Total == <<"t", "o", "t", "a", "l">>
T_20_12_2023 == <<"2", "0", "/", "1", "2", "/", "2", "0", "2", "3">>
T_02_01_2024 == <<"0", "2", "/", "0", "1", "/", "2", "0", "2", "4">>
T_15_01_2024 == <<"1", "5", "/", "0", "1", "/", "2", "0", "2", "4">>
T_31_02_2024 == <<"3", "1", "/", "0", "2", "/", "2", "0", "2", "4">>
T_21 == <<"2", "1">>
T_22 == <<"2", "2">>
T_Ana == <<"A", "n", "a">>
T_Bob == <<"B", "o", "b">>
T_NA == <<"N", "A">>
T_Dash == <<"-">>

TextCell(t) == [check |-> FALSE, x |-> FALSE, text |-> t]
CheckCell == [check |-> TRUE, x |-> FALSE, text |-> <<>>]
XCell == [check |-> FALSE, x |-> TRUE, text |-> <<>>]
BothCell == [check |-> TRUE, x |-> TRUE, text |-> T_NA]

\* The two older dates, the later one first in the header row.
PageOld ==
    [headers |-> <<T_RollNo, T_Name, <<" ">> \o T_02_01_2024, T_20_12_2023>>,
     rows |-> << <<TextCell(T_21), TextCell(T_Ana), CheckCell, XCell>>,
                 <<TextCell(T_22), TextCell(T_Bob), TextCell(<<" ">> \o T_NA), BothCell>> >>]

\* The newest date and once more a date of PageOld, with other statuses, for
\* the same two students; a one-cell row, a column that is no date, and a row
\* that lacks its last cell.
PageNew ==
    [headers |-> <<T_RollNo, T_Name, T_Total, T_15_01_2024, T_02_01_2024>>,
     rows |-> << <<TextCell(T_Total)>>,
                 <<TextCell(T_21), TextCell(T_Ana), TextCell(T_Dash), XCell, XCell>>,
                 <<TextCell(T_22), TextCell(T_Bob), TextCell(T_Dash), TextCell(T_Dash)>> >>]

\* A table whose body has no row.
PageEmpty ==
    [headers |-> <<T_RollNo, T_Name, T_15_01_2024>>,
     rows |-> << >>]

\* A date that is no calendar day, and a row that lacks every date cell.
PageOdd ==
    [headers |-> <<T_RollNo, T_Name, T_31_02_2024>>,
     rows |-> << <<TextCell(T_21), TextCell(T_Ana), CheckCell>>,
                 <<TextCell(T_22), TextCell(T_Bob)>> >>]

PageSamples == {PageOld, PageNew, PageEmpty}

\* Every course of 1..MaxPages pages over the sample pages.
Courses == UNION { [1..n -> PageSamples] : n \in 1..MaxPages }

\* ------------------------------------------------------- helper functions

UpperCase == {Alphabet[i] : i \in Ord("A")..Ord("Z")}
LowerCase == {Alphabet[i] : i \in Ord("a")..Ord("z")}

\* [a-zA-Z0-9_]
IsWordChar(c) == c \in UpperCase \cup LowerCase \cup Digits \cup {"_"}

\* str.lower() on one character.
Lower(c) == IF c \in UpperCase THEN Alphabet[Ord(c) + (Ord("a") - Ord("A"))] ELSE c

\* re.sub(r'__+', '_', name): a run of underscores becomes one underscore.
RECURSIVE CollapseUnderscores(_)
CollapseUnderscores(s) ==
    IF Len(s) < 2 THEN s
    ELSE IF s[1] = "_" /\ s[2] = "_" THEN CollapseUnderscores(Tail(s))
    ELSE <<s[1]>> \o CollapseUnderscores(Tail(s))

RECURSIVE StripLeft(_, _)
StripLeft(s, c) == IF s # <<>> /\ Head(s) = c THEN StripLeft(Tail(s), c) ELSE s

RECURSIVE StripRight(_, _)
StripRight(s, c) ==
    IF s # <<>> /\ s[Len(s)] = c THEN StripRight(SubSeq(s, 1, Len(s) - 1), c) ELSE s

\* Lines 28-32.
sanitize_table_name(name) ==
    LET a == [i \in DOMAIN name |-> IF IsWordChar(name[i]) THEN name[i] ELSE "_"]
        b == CollapseUnderscores(a)
        c == StripRight(StripLeft(b, "_"), "_")
    IN  [i \in DOMAIN c |-> Lower(c[i])]

\* Lines 34-36.
sanitize_column_name(name) ==
    [i \in DOMAIN name |-> IF name[i] = "/" THEN "_" ELSE name[i]]

\* ---------------------------------------------------------------- reshape

T_Roll_No == <<"R", "o", "l", "l", "_", "N", "o">>
T_Section == <<"S", "e", "c", "t", "i", "o", "n">>

\* Python's None in a cell of the table; no text of the model equals it.
None == <<"None">>

\* record.get('section', 'Unknown')
SectionOf(record) ==
    IF "section" \in DOMAIN record THEN record.section ELSE S_Unknown

\* The long-format rows of one record, lines 87-91.
LongRowsOf(record) ==
    [k \in DOMAIN record.attendance_data |->
        [Roll_No |-> record.roll_no,
         Name |-> record.student_name,
         Section |-> SectionOf(record),
         Date |-> record.attendance_data[k][1],
         Status |-> record.attendance_data[k][2]]]

\* Lines 85-91.
RECURSIVE long_format_data(_)
long_format_data(student_records) ==
    IF student_records = <<>> THEN <<>>
    ELSE LongRowsOf(Head(student_records)) \o long_format_data(Tail(student_records))

IndexKey(row) == << row.Roll_No, row.Name, row.Section >>

\* Tuples of texts, compared field by field.
RECURSIVE TupleLess(_, _)
TupleLess(a, b) ==
    IF a = <<>> THEN FALSE
    ELSE IF Head(a) # Head(b) THEN StrLess(Head(a), Head(b))
    ELSE TupleLess(Tail(a), Tail(b))

\* The sorted index of the pivot: the distinct (Roll_No, Name, Section).
RECURSIVE SortedIndex(_)
SortedIndex(keys) ==
    IF keys = {} THEN <<>>
    ELSE LET least == CHOOSE k \in keys : \A o \in keys \ {k} : TupleLess(k, o)
         IN  <<least>> \o SortedIndex(keys \ {least})

\* The sorted columns of the pivot: the distinct Date texts, in text order.
RECURSIVE SortedTexts(_)
SortedTexts(texts) ==
    IF texts = {} THEN <<>>
    ELSE LET least == CHOOSE t \in texts : \A o \in texts \ {t} : StrLess(t, o)
         IN  <<least>> \o SortedTexts(texts \ {least})

\* Mutant: aggfunc='last'.
LastStatus(long, key, date) ==
    LET hits == {i \in DOMAIN long : IndexKey(long[i]) = key /\ long[i].Date = date}
    IN  IF hits = {} THEN None
        ELSE long[CHOOSE i \in hits : \A j \in hits : j <= i].Status

\* aggfunc='first': the status of the first long row of the key and date, NaN
\* (None after line 110) when there is none.
FirstStatus(long, key, date) ==
    LET hits == {i \in DOMAIN long : IndexKey(long[i]) = key /\ long[i].Date = date}
    IN  IF hits = {} THEN None
        ELSE long[CHOOSE i \in hits : \A j \in hits : i <= j].Status

\* df_pivot.columns.tolist(), line 102.
date_cols(long) == SortedTexts({long[i].Date : i \in DOMAIN long})

\* sorted(seq, key=pd.to_datetime): a stable insertion by the calendar key.
RECURSIVE SortedByDate(_)
SortedByDate(seq) ==
    IF seq = <<>> THEN <<>>
    ELSE LET n == Len(seq)
             sorted == SortedByDate(SubSeq(seq, 1, n - 1))
             x == seq[n]
             before == Cardinality({i \in DOMAIN sorted :
                                      ~KeyLess(DateKey(x), DateKey(sorted[i]))})
         IN  SubSeq(sorted, 1, before) \o <<x>> \o SubSeq(sorted, before + 1, n - 1)

\* Mutant: the columns are left in the order of the pivot.
sorted_date_cols_unsorted(long) == date_cols(long)

\* Line 103.
sorted_date_cols(long) == SortedByDate(date_cols(long))

\* Lines 97-106 and 110: the wide table, its rows as dictionaries.
df_final(long) ==
    LET index == SortedIndex({IndexKey(long[i]) : i \in DOMAIN long})
        dates == sorted_date_cols(long)
        columns == <<T_Roll_No, T_Name, T_Section>>
                     \o [i \in DOMAIN dates |-> sanitize_column_name(dates[i])]
    IN  [columns |-> columns,
         rows |-> [r \in DOMAIN index |->
                    [c \in {columns[i] : i \in DOMAIN columns} |->
                        IF c = T_Roll_No THEN index[r][1]
                        ELSE IF c = T_Name THEN index[r][2]
                        ELSE IF c = T_Section THEN index[r][3]
                        ELSE LET d == CHOOSE d \in DOMAIN dates :
                                         sanitize_column_name(dates[d]) = c
                             IN  FirstStatus(long, index[r], dates[d])]]]

\* Mutant: the check for an empty long table is gone.
NoDatesNeverSkips(long) == FALSE

\* Line 93.
NoDates(long) == long = <<>>

\* Lines 78-107 of upload_to_supabase: what the call does before it touches
\* the store.
\*   skip   it returns (lines 78-80 and 93-95)
\*   raise  pd.to_datetime raises for a date column (line 103)
\*   table  df_final is ready for table_name
Prepare(subject_name, student_records) ==
    IF student_records = <<>> THEN [kind |-> "skip"]
    ELSE LET table_name == sanitize_table_name(subject_name)
             long == long_format_data(student_records)
         IN  IF NoDates(long) THEN [kind |-> "skip"]
             ELSE IF \E i \in DOMAIN long : ~to_datetime_ok(long[i].Date)
                  THEN [kind |-> "raise"]
                  ELSE [kind |-> "table", table_name |-> table_name, df |-> df_final(long)]

\* ------------------------------------------------------------------ state

VARIABLES
    pc,                   \* the position of the program
    \* get_data_for_course
    course,               \* the pages of the selected course, first to last
    view,                 \* the page the browser shows, 1..Len(course)
    page_count,           \* local of phase 1
    page_num,             \* local of phase 2
    all_student_records,  \* local: the records extracted so far
    nav,                  \* what the last look at a Next/Previous control gave
    next_clicks,          \* activations of Next in this call
    prev_clicks,          \* activations of Previous in this call
    visited,              \* the pages extracted in this call, in order
    nav_faults,           \* lookups, checks, clicks and waits that failed so far
    nav_limit,            \* how many of them the environment may fail
    \* run_scraper
    site,                 \* the courses the site lists per (section, type)
    sec_i,                \* index of section_name in sections
    typ_i,                \* index of attendance_type
    course_list_names,    \* the labels read from the course listbox
    crs_i,                \* index of course_name_with_code
    all_subjects_data,    \* the aggregate: (subject, records) in insertion order
    failure,              \* what the except clause of run_scraper saw, if it ran
    calls,                \* the calls of get_data_for_course and what each returned
    \* __main__ and upload_to_supabase
    all_data,             \* what run_scraper returned
    pub_i,                \* index of the subject the publish loop is at
    upload,               \* table_name and df_final of the call in progress
    store,                \* the tables of the store, by name
    store_log,            \* the statements sent to the store, in order
    uploads               \* the calls of upload_to_supabase and how each ended

pagerVars ==
    << course, view, page_count, page_num, all_student_records, nav,
       next_clicks, prev_clicks, visited, nav_faults, nav_limit >>

runVars ==
    << site, sec_i, typ_i, course_list_names, crs_i, all_subjects_data, failure,
       calls >>

mainVars == << all_data, pub_i, upload, store, store_log, uploads >>

vars == << pc, pagerVars, runVars, mainVars >>

\* ------------------------------------------------- get_data_for_course

\* What one pass over a Next/Previous control can give. enabled: the state of
\* the control in the page; faulty: the environment may still fail a step.
\*   clicked       the control was enabled, clicked, and the view settled
\*   disabled      is_enabled() returned False
\*   missing       wait_for_selector(..., state="attached") timed out
\*   check_error   is_enabled() raised
\*   click_error   click() raised, the view did not move
\*   wait_timeout  the click moved the view, wait_for_load_state timed out
NavFaults(enabled) ==
    {"missing", "check_error"} \cup (IF enabled THEN {"click_error", "wait_timeout"} ELSE {})

NavOutcomes(enabled, faulty) ==
    {IF enabled THEN "clicked" ELSE "disabled"} \cup (IF faulty THEN NavFaults(enabled) ELSE {})

IsNavFault(o) == o \in {"missing", "check_error", "click_error", "wait_timeout"}

\* The control was activated: the page moved.
Activated(o) == o \in {"clicked", "wait_timeout"}

\* Mutant: phase 1 is left after its first look, whatever it gave.
SeekEndNeverLoops(o) == FALSE

\* Mutant: phase 1 has lost its break on a control that is not enabled.
SeekEndNeverBreaks(o) == ~IsNavFault(o)

\* Line 136-138 against the breaks of lines 135 and 141: phase 1 goes round
\* again only after a click whose wait returned.
SeekEndLoopsOn(o) == o = "clicked"

\* Lines 127-141: one iteration of the loop that seeks the last page.
SeekEnd ==
    /\ pc = "seek_end"
    /\ \E o \in NavOutcomes(view < Len(course), nav_faults < nav_limit) :
        /\ nav' = o
        /\ nav_faults' = nav_faults + (IF IsNavFault(o) THEN 1 ELSE 0)
        /\ view' = IF Activated(o) THEN view + 1 ELSE view
        /\ next_clicks' = next_clicks + (IF Activated(o) THEN 1 ELSE 0)
        /\ page_count' = IF o = "clicked" THEN page_count + 1 ELSE page_count
        /\ pc' = IF SeekEndLoopsOn(o) THEN "seek_end" ELSE "walk_back"
    /\ UNCHANGED << course, page_num, all_student_records, prev_clicks, visited, nav_limit >>
    /\ UNCHANGED << runVars, mainVars >>

\* What the wait for the first body row and the in-page script can give.
\*   shown    the row was there in time
\*   timeout  no row within the wait (PlaywrightTimeoutError, swallowed): the
\*            script runs on a table without rows
\*   error    the wait or page.evaluate raised something else: it propagates
TableOutcomes(dom, faulty) ==
    (IF dom.rows = <<>> THEN {"timeout"} ELSE {"shown"})
        \cup {"error"} \cup (IF faulty THEN {"timeout"} ELSE {})

\* The wait timed out although the page has rows to show.
IsTableFault(dom, t) == t = "timeout" /\ dom.rows # <<>>

\* The table the script sees.
Rendered(dom, t) == IF t = "timeout" THEN [dom EXCEPT !.rows = <<>>] ELSE dom

\* Mutant: a student already in the list is not added again.
ExtendNewRollsOnly(records, page_data) ==
    records \o SelectSeq(page_data,
                 LAMBDA r : \A i \in DOMAIN records : records[i].roll_no # r.roll_no)

\* Line 186: all_student_records.extend(page_data).
Extend(records, page_data) == records \o page_data

\* Mutant: phase 2 goes round again after a failed look at Previous.
WalkBackIgnoresFaults(o) == o # "disabled"

\* Lines 191-198: phase 2 goes round again only after a click whose wait
\* returned.
WalkBackLoopsOn(o) == o = "clicked"

\* Lines 144-198: one iteration of the loop that walks back to the first page.
WalkBack ==
    /\ pc = "walk_back"
    /\ \E t \in TableOutcomes(course[view], nav_faults < nav_limit) :
        LET f1 == nav_faults + (IF IsTableFault(course[view], t) THEN 1 ELSE 0) IN
        /\ page_num' = page_num + 1
        /\ IF t = "error"
           THEN /\ pc' = "raised"
                /\ nav_faults' = f1
                /\ UNCHANGED << view, all_student_records, nav, prev_clicks, visited >>
           ELSE /\ all_student_records' =
                      Extend(all_student_records, extractPage(Rendered(course[view], t)))
                /\ visited' = Append(visited, view)
                /\ \E o \in NavOutcomes(view > 1, f1 < nav_limit) :
                    /\ nav' = o
                    /\ nav_faults' = f1 + (IF IsNavFault(o) THEN 1 ELSE 0)
                    /\ view' = IF Activated(o) THEN view - 1 ELSE view
                    /\ prev_clicks' = prev_clicks + (IF Activated(o) THEN 1 ELSE 0)
                    /\ pc' = IF WalkBackLoopsOn(o) THEN "walk_back" ELSE "returned"
    /\ UNCHANGED << course, page_count, next_clicks, nav_limit >>
    /\ UNCHANGED << runVars, mainVars >>

\* The bound on the failures the environment injects into one call.
MaxNavFaults == 2

NoFailure == [raised |-> FALSE, subjects |-> <<>>, abandoned |-> <<>>, screenshot |-> "none"]

\* The locals of run_scraper outside a call of it.
RunIdle ==
    /\ site = <<>>
    /\ sec_i = 0
    /\ typ_i = 0
    /\ course_list_names = <<>>
    /\ crs_i = 0
    /\ all_subjects_data = <<>>
    /\ failure = NoFailure
    /\ calls = <<>>

\* __main__ before run_scraper returned, with an empty store.
MainIdle ==
    /\ all_data = <<>>
    /\ pub_i = 0
    /\ upload = <<>>
    /\ store = <<>>
    /\ store_log = <<>>
    /\ uploads = <<>>

\* A call of get_data_for_course on any course, landed on any of its pages.
InitPager ==
    /\ pc = "seek_end"
    /\ course \in Courses
    /\ view \in 1..MaxPages
    /\ view <= Len(course)
    /\ page_count = 1
    /\ page_num = 0
    /\ all_student_records = <<>>
    /\ nav = "none"
    /\ next_clicks = 0
    /\ prev_clicks = 0
    /\ visited = <<>>
    /\ nav_faults = 0
    /\ nav_limit = MaxNavFaults
    /\ RunIdle
    /\ MainIdle

NextPager == SeekEnd \/ WalkBack

SpecPager == InitPager /\ [][NextPager]_vars

\* The loops are sequential code: a step that can be taken is taken.
SpecPagerFair == SpecPager /\ WF_vars(NextPager)

\* ------------------------------------------------- inputs of the classifier

\* Cell texts around the literal NA.
CellTexts ==
    { <<>>, T_NA, <<" ">> \o T_NA \o <<" ">>, <<"n", "a">>, <<"N", " ", "A">>,
      T_NA \o <<"X">>, <<"P">> }

\* Every combination of the two markers with each of the texts.
Cells == [check : BOOLEAN, x : BOOLEAN, text : CellTexts]

\* A one-page course: a table of one student row with two date columns.
CellPage(c1, c2) ==
    [headers |-> <<T_RollNo, T_Name, T_20_12_2023, T_02_01_2024>>,
     rows |-> << <<TextCell(T_21), TextCell(T_Ana), c1, c2>> >>]

\* A call of get_data_for_course on such a course, without failures of the
\* controls.
InitCells ==
    /\ pc = "seek_end"
    /\ \E c1, c2 \in Cells : course = <<CellPage(c1, c2)>>
    /\ view = 1
    /\ page_count = 1
    /\ page_num = 0
    /\ all_student_records = <<>>
    /\ nav = "none"
    /\ next_clicks = 0
    /\ prev_clicks = 0
    /\ visited = <<>>
    /\ nav_faults = 0
    /\ nav_limit = 0
    /\ RunIdle
    /\ MainIdle

SpecCells == InitCells /\ [][NextPager]_vars

\* ----------------------------------------------------------- run_scraper

\* str.replace(old, new): every occurrence, left to right.
RECURSIVE Replace(_, _, _)
Replace(s, old, new) ==
    IF Len(s) < Len(old) THEN s
    ELSE IF SubSeq(s, 1, Len(old)) = old
         THEN new \o Replace(SubSeq(s, Len(old) + 1, Len(s)), old, new)
         ELSE <<Head(s)>> \o Replace(Tail(s), old, new)

\* s.split(sep)[0]: the text before the first occurrence of sep.
RECURSIVE SplitFirst(_, _)
SplitFirst(s, sep) ==
    IF Len(s) < Len(sep) THEN s
    ELSE IF SubSeq(s, 1, Len(sep)) = sep THEN <<>>
    ELSE <<Head(s)>> \o SplitFirst(Tail(s), sep)

\* Line 242.
sections ==
    << T_Section \o <<" ">> \o T_Section \o <<" ", "A">>,
       T_Section \o <<" ">> \o T_Section \o <<" ", "B">>,
       T_Section \o <<" ">> \o T_Section \o <<" ", "C">> >>

\* Line 251: "RTU Classes" and "Labs".
attendance_types == << <<"R", "T", "U", " ", "C", "l", "a", "s", "s", "e", "s">>,
                       <<"L", "a", "b", "s">> >>

\* Line 276.
clean_section_name(section_name) ==
    Replace(section_name, T_Section \o <<" ">> \o T_Section, T_Section)

\* Line 268.
subject_name(course_name_with_code) ==
    Trim(SplitFirst(course_name_with_code, <<" ", "(">>))

\* Line 278: record['section'] = clean_section_name.
Tag(record, section) ==
    [k \in DOMAIN record \cup {"section"} |-> IF k = "section" THEN section ELSE record[k]]

TagAll(course_data, section) ==
    [i \in DOMAIN course_data |-> Tag(course_data[i], section)]

\* Mutant: the list of a subject already in the dictionary is replaced.
AggregatedOverwrites(agg, subject, course_data) ==
    IF \E i \in DOMAIN agg : agg[i].subject = subject
    THEN [i \in DOMAIN agg |->
            IF agg[i].subject = subject
            THEN [agg[i] EXCEPT !.records = course_data]
            ELSE agg[i]]
    ELSE Append(agg, [subject |-> subject, records |-> course_data])

\* Lines 280-282: the records go to the end of the list of their subject, a
\* new subject goes to the end of the dictionary.
Aggregated(agg, subject, course_data) ==
    IF \E i \in DOMAIN agg : agg[i].subject = subject
    THEN [i \in DOMAIN agg |->
            IF agg[i].subject = subject
            THEN [agg[i] EXCEPT !.records = @ \o course_data]
            ELSE agg[i]]
    ELSE Append(agg, [subject |-> subject, records |-> course_data])

\* The pager's locals outside a call of it; the failures the environment
\* injected so far stay counted.
PagerReset ==
    /\ course' = <<>>
    /\ view' = 0
    /\ page_count' = 1
    /\ page_num' = 0
    /\ all_student_records' = <<>>
    /\ nav' = "none"
    /\ next_clicks' = 0
    /\ prev_clicks' = 0
    /\ visited' = <<>>
    /\ UNCHANGED << nav_faults, nav_limit >>

Subjects(agg) == [i \in DOMAIN agg |-> agg[i].subject]

\* Lines 214-239: the page is opened and department, batch and semester are
\* selected.
ApplyFilters ==
    /\ pc = "filters"
    /\ sec_i' = 1
    /\ pc' = "section"
    /\ UNCHANGED << site, typ_i, course_list_names, crs_i, all_subjects_data, failure,
                    calls >>
    /\ UNCHANGED << pagerVars, mainVars >>

\* Lines 243-249: the next section is selected; after the last, the try
\* block is left.
SelectSection ==
    /\ pc = "section"
    /\ IF sec_i > Len(sections)
       THEN /\ pc' = "finally"
            /\ UNCHANGED typ_i
       ELSE /\ typ_i' = 1
            /\ pc' = "type"
    /\ UNCHANGED << site, sec_i, course_list_names, crs_i, all_subjects_data, failure,
                    calls >>
    /\ UNCHANGED << pagerVars, mainVars >>

\* Lines 251-265: the next attendance type is selected and the labels of its
\* courses are read.
SelectType ==
    /\ pc = "type"
    /\ IF typ_i > Len(attendance_types)
       THEN /\ sec_i' = sec_i + 1
            /\ pc' = "section"
            /\ UNCHANGED << course_list_names, crs_i >>
       ELSE /\ course_list_names' =
                  [i \in DOMAIN site[sec_i][typ_i] |-> site[sec_i][typ_i][i].label]
            /\ crs_i' = 1
            /\ pc' = "course"
            /\ UNCHANGED sec_i
    /\ UNCHANGED << site, typ_i, all_subjects_data, failure, calls >>
    /\ UNCHANGED << pagerVars, mainVars >>

\* Line 274: a call of get_data_for_course, before it returns.
Called(label) ==
    [section |-> sec_i, type |-> typ_i, course |-> crs_i, label |-> label,
     returned |-> FALSE, course_data |-> <<>>]

\* Line 274: the call in progress returns course_data.
Returning(course_data) ==
    [calls EXCEPT ![Len(calls)] = [@ EXCEPT !.returned = TRUE,
                                            !.course_data = course_data]]

\* Lines 267-274: the next course is selected and get_data_for_course is
\* called on the page the view lands on.
SelectCourse ==
    /\ pc = "course"
    /\ IF crs_i > Len(course_list_names)
       THEN /\ typ_i' = typ_i + 1
            /\ course_list_names' = <<>>
            /\ crs_i' = 0
            /\ pc' = "type"
            /\ UNCHANGED << pagerVars, calls >>
       ELSE /\ calls' = Append(calls, Called(course_list_names[crs_i]))
            /\ course' = site[sec_i][typ_i][crs_i].pages
            /\ view' = site[sec_i][typ_i][crs_i].landing
            /\ page_count' = 1
            /\ page_num' = 0
            /\ all_student_records' = <<>>
            /\ nav' = "none"
            /\ next_clicks' = 0
            /\ prev_clicks' = 0
            /\ visited' = <<>>
            /\ pc' = "seek_end"
            /\ UNCHANGED << nav_faults, nav_limit, typ_i, course_list_names, crs_i >>
    /\ UNCHANGED << site, sec_i, all_subjects_data, failure >>
    /\ UNCHANGED mainVars

\* Lines 276-282: the records the pager returned are tagged with the section
\* and appended to the aggregate of the subject.
Aggregate ==
    /\ pc = "returned"
    /\ all_subjects_data' =
         Aggregated(all_subjects_data,
                    subject_name(course_list_names[crs_i]),
                    TagAll(all_student_records, clean_section_name(sections[sec_i])))
    /\ calls' = Returning(all_student_records)
    /\ crs_i' = crs_i + 1
    /\ pc' = "course"
    /\ PagerReset
    /\ UNCHANGED << site, sec_i, typ_i, course_list_names, failure >>
    /\ UNCHANGED mainVars

\* A step of the traversal that drives the page.
DrivesPage ==
    \/ pc = "filters"
    \/ pc = "section" /\ sec_i <= Len(sections)
    \/ pc = "type" /\ typ_i <= Len(attendance_types)
    \/ pc = "course" /\ crs_i <= Len(course_list_names)

\* Mutant: the records of the call that raised are aggregated.
AbandonedIsAggregated(agg, subject, extracted) == Aggregated(agg, subject, extracted)

\* Lines 274 and 284: the exception leaves get_data_for_course with its
\* local all_student_records; the aggregate is what it was.
Abandoned(agg, subject, extracted) == agg

\* Line 284: a call on the page raised inside the try block, or
\* get_data_for_course did; the except clause is entered.
TraversalRaises ==
    /\ DrivesPage \/ pc = "raised"
    /\ failure' = [raised |-> TRUE, subjects |-> Subjects(all_subjects_data),
                   abandoned |-> IF pc = "raised" THEN all_student_records ELSE <<>>,
                   screenshot |-> "none"]
    /\ all_subjects_data' =
         IF pc = "raised"
         THEN Abandoned(all_subjects_data, subject_name(course_list_names[crs_i]),
                        TagAll(all_student_records, clean_section_name(sections[sec_i])))
         ELSE all_subjects_data
    /\ pc' = "except"
    /\ PagerReset
    /\ UNCHANGED << site, sec_i, typ_i, course_list_names, crs_i, calls >>
    /\ UNCHANGED mainVars

\* Lines 285-287: page.screenshot is called; it can raise too, and nothing
\* catches that.
TakeScreenshot ==
    /\ pc = "except"
    /\ \E ok \in BOOLEAN :
        failure' = [failure EXCEPT !.screenshot = IF ok THEN "taken" ELSE "failed"]
    /\ pc' = "finally"
    /\ UNCHANGED << site, sec_i, typ_i, course_list_names, crs_i, all_subjects_data,
                    calls >>
    /\ UNCHANGED << pagerVars, mainVars >>

\* Lines 288-291 and 301-303: the browser is closed; run_scraper returns the
\* aggregate to __main__, or the exception of the screenshot or of
\* browser.close() goes on to line 310.
CloseAndReturn ==
    /\ pc = "finally"
    /\ \E closed \in BOOLEAN :
        IF closed /\ failure.screenshot # "failed"
        THEN /\ all_data' = all_subjects_data
             /\ pub_i' = 1
             /\ pc' = IF all_subjects_data = <<>> THEN "done" ELSE "main_loop"
        ELSE /\ pc' = "main_except"
             /\ UNCHANGED << all_data, pub_i >>
    /\ sec_i' = 0
    /\ typ_i' = 0
    /\ course_list_names' = <<>>
    /\ crs_i' = 0
    /\ all_subjects_data' = <<>>
    /\ nav_faults' = 0
    /\ nav_limit' = 0
    /\ UNCHANGED << site, failure, calls >>
    /\ UNCHANGED << course, view, page_count, page_num, all_student_records, nav,
                    next_clicks, prev_clicks, visited >>
    /\ UNCHANGED << upload, store, store_log, uploads >>

Traverse ==
    \/ ApplyFilters \/ SelectSection \/ SelectType \/ SelectCourse \/ Aggregate
    \/ TraversalRaises \/ TakeScreenshot \/ CloseAndReturn

\* ------------------------------------- upload_to_supabase and __main__

\* The primary key of the table: two rows with the same Roll_No cannot both
\* be inserted (lines 50-51).
PrimaryKeyHolds(rows) ==
    \A i, j \in DOMAIN rows : rows[i][T_Roll_No] = rows[j][T_Roll_No] => i = j

Without(f, k) == [n \in DOMAIN f \ {k} |-> f[n]]

With(f, k, v) == [n \in DOMAIN f \cup {k} |-> IF n = k THEN v ELSE f[n]]

Logged(op, ok) ==
    Append(store_log,
           [subject |-> all_data[pub_i].subject, table |-> upload.table_name,
            op |-> op, ok |-> ok])

Ended(how) == Append(uploads, [subject |-> all_data[pub_i].subject, how |-> how])

\* Mutant: a failed schema statement is logged and the call goes on.
SchemaFailureSwallowed(uncaught) == "insert"

\* Where a failed schema statement leaves the program: the exception leaves
\* recreate_table_for_upload (line 44 uncaught, line 74 re-raised) and
\* upload_to_supabase (line 109) and the loop of lines 304-305, and is caught
\* at line 310.
SchemaFailureGoesTo(uncaught) == "main_except"

\* Mutant: the insert is not guarded, its failure leaves the loop.
InsertFailureEscapes(caught) == "main_except"

\* Where a failed insert leaves the program: caught at line 116, the call
\* returns to the loop of lines 304-305.
InsertFailureGoesTo(caught) == "main_loop"

\* Lines 302-309 and 76-107: the publish loop takes the next subject and
\* upload_to_supabase runs up to its first statement on the store.
MainLoop ==
    /\ pc = "main_loop"
    /\ IF pub_i > Len(all_data)
       THEN /\ pc' = "done"
            /\ UNCHANGED << pub_i, upload, uploads >>
       ELSE LET p == Prepare(all_data[pub_i].subject, all_data[pub_i].records) IN
            CASE p.kind = "skip" ->
                    /\ uploads' = Ended("skipped")
                    /\ pub_i' = pub_i + 1
                    /\ pc' = "main_loop"
                    /\ UNCHANGED upload
              [] p.kind = "raise" ->
                    /\ uploads' = Ended("raised")
                    /\ pc' = "main_except"
                    /\ UNCHANGED << pub_i, upload >>
              [] p.kind = "table" ->
                    /\ upload' = p
                    /\ pc' = "drop"
                    /\ UNCHANGED << pub_i, uploads >>
    /\ UNCHANGED << all_data, store, store_log >>
    /\ UNCHANGED << pagerVars, runVars >>

\* One schema statement of recreate_table_for_upload: it takes effect, or it
\* fails and leaves the store as it was.
SchemaStatement(at, op, effect, then) ==
    /\ pc = at
    /\ \E ok \in BOOLEAN :
        /\ store_log' = Logged(op, ok)
        /\ IF ok
           THEN /\ store' = effect
                /\ pc' = then
                /\ UNCHANGED uploads
           ELSE /\ pc' = SchemaFailureGoesTo(op)
                /\ uploads' = IF pc' = "main_except" THEN Ended("raised") ELSE uploads
                /\ UNCHANGED store
    /\ UNCHANGED << all_data, pub_i, upload >>
    /\ UNCHANGED << pagerVars, runVars >>

\* Lines 43-44.
DropTable ==
    SchemaStatement("drop", "drop", Without(store, upload.table_name), "create")

\* Lines 48-59.
CreateTable ==
    SchemaStatement("create", "create",
        With(store, upload.table_name,
             [columns |-> upload.df.columns, rows |-> <<>>, rls |-> FALSE, policy |-> FALSE]),
        "rls")

\* Lines 61-62.
EnableRls ==
    SchemaStatement("rls", "rls",
        IF upload.table_name \in DOMAIN store
        THEN [store EXCEPT ![upload.table_name].rls = TRUE] ELSE store,
        "policy")

\* Lines 64-71.
CreatePolicy ==
    SchemaStatement("policy", "policy",
        IF upload.table_name \in DOMAIN store
        THEN [store EXCEPT ![upload.table_name].policy = TRUE] ELSE store,
        "insert")

\* Mutant: the insert sends the first record only.
InsertFirstOnly(table, records_to_upload) ==
    [table EXCEPT !.rows = @ \o SubSeq(records_to_upload, 1, 1)]

\* Line 114: the rows are added to the rows the table holds.
Insert(table, records_to_upload) ==
    [table EXCEPT !.rows = @ \o records_to_upload]

\* Lines 110-117: the bulk insert; it fails as a whole on a primary key
\* violation, on a missing table, or when the store fails.
InsertRows ==
    /\ pc = "insert"
    /\ \E ok \in BOOLEAN :
        LET lands == /\ ok
                     /\ upload.table_name \in DOMAIN store
                     /\ PrimaryKeyHolds(store[upload.table_name].rows \o upload.df.rows)
        IN  /\ store_log' = Logged("insert", lands)
            /\ IF lands
               THEN /\ store' = [store EXCEPT ![upload.table_name] =
                                                 Insert(@, upload.df.rows)]
                    /\ uploads' = Ended("inserted")
                    /\ pc' = "main_loop"
                    /\ pub_i' = pub_i + 1
               ELSE /\ UNCHANGED store
                    /\ pc' = InsertFailureGoesTo(ok)
                    /\ uploads' = Ended(IF pc' = "main_loop" THEN "insert_failed" ELSE "raised")
                    /\ pub_i' = IF pc' = "main_loop" THEN pub_i + 1 ELSE pub_i
    /\ upload' = <<>>
    /\ UNCHANGED all_data
    /\ UNCHANGED << pagerVars, runVars >>

Publish == MainLoop \/ DropTable \/ CreateTable \/ EnableRls \/ CreatePolicy \/ InsertRows

\* ----------------------------------------------- inputs of the publish loop

\* The largest number of records of a subject, and of subjects of a run, the
\* publish loop is started on.
MaxRecords == 2
MaxSubjects == 3

T_OS == <<"O", "S">>
T_DB == <<"D", "B">>
T_Net == <<"N", "e", "t">>
T_AI == <<"A", "I">>
T_ML == <<"M", "L">>
T_OS_Lab == <<"O", "S", "-", "L", "a", "b">>

SectionA == clean_section_name(sections[1])
SectionB == clean_section_name(sections[2])

Elements(seq) == {seq[i] : i \in DOMAIN seq}

\* Records as run_scraper aggregates them: extracted from a page and tagged.
RecordSamples ==
    { Tag(r, sec) :
        r \in Elements(extractPage(PageOld)) \cup Elements(extractPage(PageNew))
                \cup Elements(extractPage(PageOdd)),
        sec \in {SectionA, SectionB} }

RecordLists == UNION { [1..n -> RecordSamples] : n \in 0..MaxRecords }

EntrySamples ==
    { [subject |-> T_OS,
       records |-> TagAll(extractPage(PageNew) \o extractPage(PageOld), SectionA)],
      [subject |-> T_DB,
       records |-> TagAll(extractPage(PageOld), SectionB)],
      [subject |-> T_Net,
       records |-> <<>>],
      [subject |-> T_AI,
       records |-> TagAll(SubSeq(extractPage(PageOdd), 2, 2), SectionA)],
      [subject |-> T_ML,
       records |-> TagAll(extractPage(PageOld), SectionA)
                     \o TagAll(extractPage(PageOld), SectionB)],
      [subject |-> T_OS_Lab,
       records |-> TagAll(extractPage(PageOdd), SectionA)] }

\* A dictionary has one entry per key.
DistinctSubjects(d) == \A i, j \in DOMAIN d : d[i].subject = d[j].subject => i = j

PublishInputs ==
    {<<>>}
    \cup { <<[subject |-> T_OS, records |-> rs]>> : rs \in RecordLists }
    \cup { d \in UNION { [1..n -> EntrySamples] : n \in 2..MaxSubjects } :
             DistinctSubjects(d) }

\* A table left by an earlier run.
OldTable ==
    [columns |-> <<T_Roll_No, T_Name, T_Section, sanitize_column_name(T_20_12_2023)>>,
     rows |-> << [c \in {T_Roll_No, T_Name, T_Section, sanitize_column_name(T_20_12_2023)} |->
                    IF c = T_Roll_No THEN T_21
                    ELSE IF c = T_Name THEN T_Ana
                    ELSE IF c = T_Section THEN SectionA
                    ELSE S_P] >>,
     rls |-> TRUE,
     policy |-> TRUE]

\* The store an earlier run left.
OldStore ==
    [t \in {sanitize_table_name(T_OS), sanitize_table_name(T_Net),
            sanitize_table_name(T_AI)} |-> OldTable]

Stores == {<<>>, OldStore}

PagerIdle ==
    /\ course = <<>>
    /\ view = 0
    /\ page_count = 1
    /\ page_num = 0
    /\ all_student_records = <<>>
    /\ nav = "none"
    /\ next_clicks = 0
    /\ prev_clicks = 0
    /\ visited = <<>>
    /\ nav_faults = 0
    /\ nav_limit = 0

\* __main__ at line 304, with what run_scraper returned.
InitPublish ==
    /\ pc = "main_loop"
    /\ PagerIdle
    /\ RunIdle
    /\ all_data \in PublishInputs
    /\ pub_i = 1
    /\ upload = <<>>
    /\ store \in Stores
    /\ store_log = <<>>
    /\ uploads = <<>>

SpecPublish == InitPublish /\ [][Publish]_vars

\* ------------------------------------------- inputs that share a table name

T_OS_Lab_blank == <<"O", "S", " ", "L", "a", "b">>
T_os_lab == <<"o", "s", "_", "l", "a", "b">>

\* Subjects whose names differ in punctuation or case only, and one other.
SimilarEntries ==
    { [subject |-> T_OS_Lab,
       records |-> TagAll(extractPage(PageOld), SectionA)],
      [subject |-> T_OS_Lab_blank,
       records |-> TagAll(extractPage(PageNew), SectionA)],
      [subject |-> T_os_lab,
       records |-> TagAll(extractPage(PageOld), SectionB)],
      [subject |-> T_DB,
       records |-> TagAll(extractPage(PageOld), SectionB)] }

\* __main__ at line 304 with an aggregate of two of these subjects.
InitSimilar ==
    /\ pc = "main_loop"
    /\ PagerIdle
    /\ RunIdle
    /\ all_data \in { d \in [1..2 -> SimilarEntries] : DistinctSubjects(d) }
    /\ pub_i = 1
    /\ upload = <<>>
    /\ store \in Stores
    /\ store_log = <<>>
    /\ uploads = <<>>

SpecSimilar == InitSimilar /\ [][Publish]_vars

\* __main__ at line 304 with a store that holds the tables of an earlier run.
InitReplace == InitPublish /\ store # <<>>

SpecReplace == InitReplace /\ [][Publish]_vars

\* ------------------------------------------------------ the scheduled rerun

\* The number of times the program is run on the same scraped data.
MaxRuns == 2

\* The program is started again (the workflow runs it on a schedule) and
\* run_scraper returns what it returned before: __main__ is at line 304 again,
\* the store is what the run before left.
Rerun ==
    /\ pc = "done"
    /\ all_data # <<>>
    /\ Len(uploads) < MaxRuns * Len(all_data)
    /\ pc' = "main_loop"
    /\ pub_i' = 1
    /\ UNCHANGED << all_data, upload, store, store_log, uploads >>
    /\ UNCHANGED << pagerVars, runVars >>

NextRepublish == Publish \/ Rerun

SpecRepublish == InitPublish /\ [][NextRepublish]_vars

\* ------------------------------------------------------- inputs of a run

\* The bound on the lookups and waits the environment fails during one run.
MaxRunNavFaults == 1

L_OS_C1 == T_OS \o <<" ", "(", "C", "1", ")">>
L_OS_C2 == T_OS \o <<" ", "(", "C", "2", ")">>
L_DB_C3 == T_DB \o <<" ", "(", "C", "3", ")">>
L_OS_Lab_L1 == T_OS_Lab \o <<" ", "(", "L", "1", ")">>
L_Net_C4 == T_Net \o <<" ", "(", "C", "4", ")">>

Offered(label, pages, landing) == [label |-> label, pages |-> pages, landing |-> landing]

\* A site: per section and attendance type, the courses of the listbox.
Site1 ==
    << << << Offered(L_OS_C1, <<PageOld, PageNew>>, 2), Offered(L_DB_C3, <<PageOld>>, 1) >>,
          << Offered(L_OS_Lab_L1, <<PageNew>>, 1) >> >>,
       << << Offered(L_OS_C2, <<PageOld>>, 1) >>,
          << >> >>,
       << << >>,
          << Offered(L_Net_C4, <<PageEmpty>>, 1) >> >> >>

Site2 ==
    << << << Offered(L_OS_C2, <<PageNew>>, 1) >>,
          << >> >>,
       << << >>,
          << Offered(L_OS_C1, <<PageNew, PageOld>>, 1) >> >>,
       << << Offered(L_OS_Lab_L1, <<PageOdd>>, 1) >>,
          << >> >> >>

Sites == {Site1, Site2}

\* __main__ at line 301, run_scraper at line 213.
InitMain ==
    /\ pc = "filters"
    /\ course = <<>>
    /\ view = 0
    /\ page_count = 1
    /\ page_num = 0
    /\ all_student_records = <<>>
    /\ nav = "none"
    /\ next_clicks = 0
    /\ prev_clicks = 0
    /\ visited = <<>>
    /\ nav_faults = 0
    /\ nav_limit = MaxRunNavFaults
    /\ site \in Sites
    /\ sec_i = 0
    /\ typ_i = 0
    /\ course_list_names = <<>>
    /\ crs_i = 0
    /\ all_subjects_data = <<>>
    /\ failure = NoFailure
    /\ calls = <<>>
    /\ all_data = <<>>
    /\ pub_i = 0
    /\ upload = <<>>
    /\ store \in Stores
    /\ store_log = <<>>
    /\ uploads = <<>>

NextMain == Traverse \/ SeekEnd \/ WalkBack \/ Publish

SpecMain == InitMain /\ [][NextMain]_vars

\* ------------------------------------------------- inputs of the labels

T_Operating_Systems ==
    <<"O", "p", "e", "r", "a", "t", "i", "n", "g", " ", "S", "y", "s", "t", "e", "m", "s">>

L_Operating_Systems_CS301 == T_Operating_Systems \o <<" ", "(", "C", "S", "3", "0", "1", ")">>

\* Course labels: with a course code, without one, with blanks around the
\* name, and with a parenthetical group before the course code.
Labels ==
    { L_Operating_Systems_CS301,
      L_OS_C1,
      T_OS,
      <<" ">> \o T_OS \o <<" ", " ", "(", "C", "1", ")">>,
      T_OS \o <<" ", "(", "L", "a", "b", ")", " ", "(", "C", "1", ")">>,
      T_DB \o <<" ", "(", "H", ")", " ", "(", "C", "3", ")">> }

\* A site that lists one course, in the first section and attendance type.
LabelSites ==
    { << << << Offered(label, <<PageOld>>, 1) >>, << >> >>,
         << << >>, << >> >>,
         << << >>, << >> >> >> : label \in Labels }

\* __main__ at line 301 on such a site, without failures of the controls.
InitLabels ==
    /\ pc = "filters"
    /\ PagerIdle
    /\ site \in LabelSites
    /\ sec_i = 0
    /\ typ_i = 0
    /\ course_list_names = <<>>
    /\ crs_i = 0
    /\ all_subjects_data = <<>>
    /\ failure = NoFailure
    /\ calls = <<>>
    /\ all_data = <<>>
    /\ pub_i = 0
    /\ upload = <<>>
    /\ store \in Stores
    /\ store_log = <<>>
    /\ uploads = <<>>

SpecLabels == InitLabels /\ [][NextMain]_vars

\* ------------------------------------------------------ claims on the pager

Occurrences(seq, x) == Cardinality({i \in DOMAIN seq : seq[i] = x})

SameBag(s, t) ==
    \A x \in {s[i] : i \in DOMAIN s} \cup {t[i] : i \in DOMAIN t} :
        Occurrences(s, x) = Occurrences(t, x)

\* The records of pages 1..n, visited forward.
RECURSIVE ForwardRecords(_, _)
ForwardRecords(c, n) ==
    IF n = 0 THEN <<>> ELSE ForwardRecords(c, n - 1) \o extractPage(c[n])

\* The records of pages n, n-1, .., 1 in that order.
RECURSIVE BackwardRecords(_, _)
BackwardRecords(c, n) ==
    IF n = 0 THEN <<>> ELSE extractPage(c[n]) \o BackwardRecords(c, n - 1)

Countdown(n) == [i \in 1..n |-> n + 1 - i]

\* C2 as stated: whatever page the view lands on, a call that returns has
\* extracted every page of the course exactly once and holds exactly the
\* records of a forward visit.
C2_EveryPageOnce ==
    pc = "returned" =>
        /\ Len(visited) = Len(course)
        /\ {visited[i] : i \in DOMAIN visited} = 1..Len(course)
        /\ SameBag(all_student_records, ForwardRecords(course, Len(course)))

\* The records are those of the pages in seq, page by page in that order; a
\* page whose table was not there within the wait gives no record.
RECURSIVE MadeOfPages(_, _, _)
MadeOfPages(records, c, seq) ==
    IF seq = <<>> THEN records = <<>>
    ELSE \/ MadeOfPages(records, c, Tail(seq))
         \/ LET page_data == extractPage(c[Head(seq)])
            IN  /\ Len(page_data) <= Len(records)
                /\ SubSeq(records, 1, Len(page_data)) = page_data
                /\ MadeOfPages(SubSeq(records, Len(page_data) + 1, Len(records)),
                               c, Tail(seq))

\* The pages extracted so far are consecutive pages of the course, in
\* descending order: no page is extracted twice and none in between is left out.
ConsecutiveDescending(seq, n) ==
    /\ \A i \in DOMAIN seq : seq[i] \in 1..n
    /\ \A i \in 1..(Len(seq) - 1) : seq[i + 1] = seq[i] - 1

\* C2 amended: in every call, whatever fails, no page is extracted twice:
\* the pages extracted are consecutive pages in descending order, from the
\* page phase 1 ended on down to the page phase 2 ended on, which is the
\* first page when phase 2 ended on a disabled Previous; the list returned is
\* the concatenation of their records in that order (none for a page whose
\* table wait timed out). In a call in which no lookup, check, click or wait
\* failed, these are all pages of the course, last to first, each exactly
\* once, and the list holds exactly the records of a forward visit.
C2_NoPageTwiceAllWithoutFaults ==
    /\ ConsecutiveDescending(visited, Len(course))
    /\ MadeOfPages(all_student_records, course, visited)
    /\ pc = "returned" =>
        /\ visited # <<>>
        /\ nav = "disabled" => visited[Len(visited)] = 1
        /\ nav_faults = 0 =>
            /\ visited = Countdown(Len(course))
            /\ all_student_records = BackwardRecords(course, Len(course))
            /\ SameBag(all_student_records, ForwardRecords(course, Len(course)))

\* A three-page course entered on its middle page was walked to the end
\* and back without a failure.
C2_Witness ==
    /\ pc = "returned"
    /\ nav_faults = 0
    /\ Len(course) = 3
    /\ next_clicks = 1
    /\ prev_clicks = 2
    /\ all_student_records # <<>>

RollsOf(records) == {records[i].roll_no : i \in DOMAIN records}

RecordsOfRoll(records, roll) ==
    Cardinality({i \in DOMAIN records : records[i].roll_no = roll})

\* The body rows of the visited pages that carry the roll number.
RECURSIVE RowsOfRoll(_, _, _)
RowsOfRoll(c, pages, roll) ==
    IF pages = <<>> THEN 0
    ELSE RecordsOfRoll(extractPage(c[Head(pages)]), roll) + RowsOfRoll(c, Tail(pages), roll)

\* C3 as stated: the list a call returns never holds two records with the
\* same rollNo.
C3_OneRecordPerRoll ==
    pc = "returned" =>
        \A roll \in RollsOf(all_student_records) :
            RecordsOfRoll(all_student_records, roll) = 1

\* C3 amended: the list a call returns holds at most one record per body row
\* of each page it extracted, and exactly one when no lookup or wait failed:
\* a rollNo shown on k extracted pages yields k records, nothing is merged.
C3_OneRecordPerRowAndPage ==
    pc = "returned" =>
        \A roll \in RollsOf(ForwardRecords(course, Len(course))) :
            /\ RecordsOfRoll(all_student_records, roll) <= RowsOfRoll(course, visited, roll)
            /\ nav_faults = 0 =>
                 RecordsOfRoll(all_student_records, roll) = RowsOfRoll(course, visited, roll)

\* A call over two pages that both list student 21 returned two records of 21.
C3_Witness ==
    /\ pc = "returned"
    /\ Len(visited) = 2
    /\ RecordsOfRoll(all_student_records, T_21) = 2

\* C10: Next is activated at most N-1 times and Previous at most N-1 times,
\* a phase ends with the first look at its control that is no completed
\* click (disabled, missing, failed or timed out), and the call ends.
C10_PhaseEnds ==
    /\ (pc = "seek_end" /\ nav' # "clicked") => pc' = "walk_back"
    /\ (pc = "walk_back" /\ pc' # "raised" /\ nav' # "clicked") => pc' = "returned"

C10_PagerTerminates ==
    /\ [](next_clicks <= Len(course) - 1 /\ prev_clicks <= Len(course) - 1)
    /\ [][C10_PhaseEnds]_vars
    /\ <>(pc \in {"returned", "raised"})

\* A three-page course entered on its first page: both controls were
\* activated N-1 times.
C10_Witness ==
    /\ pc = "returned"
    /\ Len(course) = 3
    /\ next_clicks = 2
    /\ prev_clicks = 2

\* ------------------------------------------------ claims on the reshape

\* The records upload_to_supabase was called with, once df_final is ready.
InputRecords == all_data[pub_i].records

RecordKey(r) == << r.roll_no, r.student_name, r.section >>

RecordDates(r) == {r.attendance_data[k][1] : k \in DOMAIN r.attendance_data}

RecordStatus(r, date) ==
    r.attendance_data[CHOOSE k \in DOMAIN r.attendance_data :
                        r.attendance_data[k][1] = date][2]

RowKey(row) == << row[T_Roll_No], row[T_Name], row[T_Section] >>

OneRowPerKey(rows, keys) ==
    /\ {RowKey(rows[i]) : i \in DOMAIN rows} = keys
    /\ Len(rows) = Cardinality(keys)

\* Every cell is the status of the first input record of its row key and
\* date, and None where there is no such record.
FirstRecordWins(rows, rs) ==
    \A i \in DOMAIN rows :
        \A date \in UNION {RecordDates(rs[k]) : k \in DOMAIN rs} :
            LET hits == {k \in DOMAIN rs :
                           RecordKey(rs[k]) = RowKey(rows[i]) /\ date \in RecordDates(rs[k])}
            IN  rows[i][sanitize_column_name(date)] =
                    IF hits = {} THEN None
                    ELSE RecordStatus(rs[CHOOSE k \in hits : \A o \in hits : k <= o], date)

\* C4 as stated: the wide table has exactly one row per distinct
\* (rollNo, name, section) of the input records, and every cell holds the
\* status of the first record of its key and date, None if there is none.
C4_RowPerInputKey ==
    pc = "drop" =>
        /\ OneRowPerKey(upload.df.rows,
                        {RecordKey(InputRecords[k]) : k \in DOMAIN InputRecords})
        /\ FirstRecordWins(upload.df.rows, InputRecords)

\* C4 amended: the wide table has exactly one row per distinct
\* (rollNo, name, section) among the input records that carry at least one
\* date entry; a record without any date entry gives no row. The cells are
\* as stated: first record in input order wins, None when no record carries
\* the key and the date.
C4_RowPerDatedKey ==
    pc = "drop" =>
        /\ OneRowPerKey(upload.df.rows,
                        {RecordKey(InputRecords[k]) :
                            k \in {k \in DOMAIN InputRecords :
                                     InputRecords[k].attendance_data # <<>>}})
        /\ FirstRecordWins(upload.df.rows, InputRecords)

\* Two records of the same student, section and date with different statuses
\* went into one row.
C4_Witness ==
    /\ pc = "drop"
    /\ \E j, k \in DOMAIN InputRecords :
        /\ j < k
        /\ RecordKey(InputRecords[j]) = RecordKey(InputRecords[k])
        /\ \E date \in RecordDates(InputRecords[j]) \cap RecordDates(InputRecords[k]) :
             RecordStatus(InputRecords[j], date) # RecordStatus(InputRecords[k], date)

\* C5: the columns of the wide table are the three identifier columns and
\* then one column per distinct date of the input, each once, in strictly
\* ascending order of (year, month, day).
C5_DateColumnsAscending ==
    pc = "drop" =>
        LET columns == upload.df.columns
            dates == SubSeq(columns, 4, Len(columns))
        IN  /\ SubSeq(columns, 1, 3) = <<T_Roll_No, T_Name, T_Section>>
            /\ {dates[i] : i \in DOMAIN dates} =
                 {sanitize_column_name(d) :
                    d \in UNION {RecordDates(InputRecords[k]) : k \in DOMAIN InputRecords}}
            /\ \A i, j \in DOMAIN dates :
                 i < j => KeyLess(DateKey(dates[i]), DateKey(dates[j]))

\* Three dates whose text order is not their calendar order.
C5_Witness ==
    /\ pc = "drop"
    /\ SubSeq(upload.df.columns, 4, Len(upload.df.columns)) =
         << sanitize_column_name(T_20_12_2023), sanitize_column_name(T_02_01_2024),
            sanitize_column_name(T_15_01_2024) >>

\* ------------------------------------------- claims on the publish loop

StorePcs == {"drop", "create", "rls", "policy", "insert"}

SchemaOps == {"drop", "create", "rls", "policy"}

Finished == pc \in {"done", "main_except"}

EndedAs(j, how) ==
    \E u \in DOMAIN uploads : uploads[u] = [subject |-> all_data[j].subject, how |-> how]

\* upload_to_supabase was called for the j-th subject.
Invoked(j) ==
    \/ \E u \in DOMAIN uploads : uploads[u].subject = all_data[j].subject
    \/ pub_i = j /\ pc \in StorePcs

SchemaFailed(j) ==
    \E e \in DOMAIN store_log :
        /\ store_log[e].subject = all_data[j].subject
        /\ store_log[e].op \in SchemaOps
        /\ ~store_log[e].ok

InsertFailed(j) ==
    \E e \in DOMAIN store_log :
        /\ store_log[e].subject = all_data[j].subject
        /\ store_log[e].op = "insert"
        /\ ~store_log[e].ok

\* C1: when the schema recreation of a subject fails, upload_to_supabase is
\* still called for every subject after it in the loop.
C1_SchemaFailureIsolated ==
    Finished =>
        \A i, j \in DOMAIN all_data : (i < j /\ SchemaFailed(i)) => Invoked(j)

\* The statements sent for a subject, in order.
LogOf(subject) == SelectSeq(store_log, LAMBDA e : e.subject = subject)

StatementOrder == <<"drop", "create", "rls", "policy", "insert">>

\* C7: the statements of a subject are issued in the order drop, create,
\* enable-RLS, policy, insert, each only after all before it succeeded, so an
\* insert comes only after a successful drop, create and policy; after a
\* failed schema statement nothing more is issued for the subject, and the
\* call ends by raising, out of the publish loop.
C7_InsertOnlyAfterSchema ==
    \A j \in DOMAIN all_data :
        LET log == LogOf(all_data[j].subject) IN
        /\ Len(log) <= Len(StatementOrder)
        /\ \A k \in DOMAIN log :
            /\ log[k].op = StatementOrder[k]
            /\ k < Len(log) => log[k].ok
        /\ SchemaFailed(j) => (pc = "main_except" /\ EndedAs(j, "raised"))

\* One subject was inserted after its schema was recreated, and the policy
\* statement of the next failed.
C7_Witness ==
    \E i, j \in DOMAIN all_data :
        /\ i < j
        /\ EndedAs(i, "inserted")
        /\ Len(LogOf(all_data[j].subject)) = 4
        /\ SchemaFailed(j)

\* C8: a failed insert is caught inside its call (the call ends as
\* insert_failed, not by raising), and the loop goes on: when the loop has
\* ended, upload_to_supabase was called for every later subject, unless the
\* call of a subject in between raised.
C8_InsertFailureIsolated ==
    \A i \in DOMAIN all_data :
        InsertFailed(i) =>
            /\ EndedAs(i, "insert_failed")
            /\ ~EndedAs(i, "raised")
            /\ pc = "main_except" => pub_i > i
            /\ Finished =>
                 \A j \in DOMAIN all_data :
                     j > i => (Invoked(j) \/ \E k \in (i + 1)..(j - 1) : EndedAs(k, "raised"))

\* The insert of one subject failed and a later subject was inserted.
C8_Witness ==
    \E i, j \in DOMAIN all_data :
        /\ i < j
        /\ InsertFailed(i)
        /\ EndedAs(j, "inserted")

HasDates(records) == \E k \in DOMAIN records : records[k].attendance_data # <<>>

C9_NoStatementForEmptySubject ==
    \A e \in DOMAIN store_log :
        \E j \in DOMAIN all_data :
            /\ all_data[j].subject = store_log[e].subject
            /\ HasDates(all_data[j].records)

C9_SkipLeavesStore ==
    (/\ pc = "main_loop"
     /\ pub_i <= Len(all_data)
     /\ ~HasDates(all_data[pub_i].records))
        => /\ store' = store
           /\ store_log' = store_log
           /\ pc' = "main_loop"
           /\ pub_i' = pub_i + 1

\* C9: for a subject without records, or whose records carry no date entry,
\* the call sends no statement to the store and leaves every table as it is.
C9_EmptySubjectSkipped ==
    /\ []C9_NoStatementForEmptySubject
    /\ [][C9_SkipLeavesStore]_vars

\* A subject whose only record has no date entry was skipped, and the table
\* an earlier run left for it is still there, as it was.
C9_Witness ==
    \E j \in DOMAIN all_data :
        /\ all_data[j].records # <<>>
        /\ ~HasDates(all_data[j].records)
        /\ EndedAs(j, "skipped")
        /\ sanitize_table_name(all_data[j].subject) \in DOMAIN store
        /\ store[sanitize_table_name(all_data[j].subject)] = OldTable

\* ---------------------------------------------------- claims on the run

\* C6: after an exception escaped the traversal and the program has ended,
\* the traversal was abandoned, page.screenshot was called, and
\* upload_to_supabase was called for every subject that was in the aggregate
\* when the exception was caught.
C6_FailureStillPublishes ==
    (failure.raised /\ Finished) =>
        /\ pc = "done" => Subjects(all_data) = failure.subjects
        /\ failure.screenshot # "none"
        /\ \A s \in DOMAIN failure.subjects :
             \E u \in DOMAIN uploads : uploads[u].subject = failure.subjects[s]

\* ------------------------------------------------ claims on the rerun

RecordsOf(subject) ==
    LET j == CHOOSE k \in DOMAIN all_data : all_data[k].subject = subject
    IN  all_data[j].records

\* What a publish of the wide table of a subject leaves under its table name.
PublishedTable(subject) ==
    LET p == Prepare(subject, RecordsOf(subject))
    IN  [columns |-> p.df.columns, rows |-> p.df.rows, rls |-> TRUE, policy |-> TRUE]

LastUpload == uploads[Len(uploads)]

\* The publish that has just ended had no failing store operation.
JustPublished ==
    /\ pc \in {"main_loop", "done"}
    /\ uploads # <<>>
    /\ LastUpload.how = "inserted"

\* C11: after a publish of a subject in which no store operation failed, the
\* table of the subject holds exactly the columns and the rows of the wide
\* table of the subject, whatever the store held before (nothing, a table of
\* an earlier run with other columns, or the table the same publish left one
\* run earlier); the second publish of the same wide table therefore leaves
\* the table the first one left.
C11_PublishReplacesTable ==
    JustPublished =>
        LET name == sanitize_table_name(LastUpload.subject)
        IN  /\ name \in DOMAIN store
            /\ store[name] = PublishedTable(LastUpload.subject)

\* The same subject has been published twice in a row without a failure, on a
\* wide table with more than one row and a null cell.
C11_Witness ==
    /\ JustPublished
    /\ Len(uploads) > Len(all_data)
    /\ \E u \in 1..Len(all_data) :
         /\ uploads[u].subject = LastUpload.subject
         /\ uploads[u].how = "inserted"
    /\ Len(PublishedTable(LastUpload.subject).rows) > 1
    /\ \E i \in DOMAIN PublishedTable(LastUpload.subject).rows :
         \E c \in DOMAIN PublishedTable(LastUpload.subject).rows[i] :
            PublishedTable(LastUpload.subject).rows[i][c] = None

\* ------------------------------------------------ claims on the aggregate

RECURSIVE ConcatAll(_)
ConcatAll(seqs) ==
    IF seqs = <<>> THEN <<>> ELSE Head(seqs) \o ConcatAll(Tail(seqs))

\* The (section, type, course) triples of a site in the nested order.
TriplesOf(st) ==
    ConcatAll([s \in 1..Len(sections) |->
        ConcatAll([t \in 1..Len(attendance_types) |->
            [c \in 1..Len(st[s][t]) |-> <<s, t, c>>]])])

TripleOfCall(k) == <<calls[k].section, calls[k].type, calls[k].course>>

\* The records of a call, each with the section of the call's triple.
WithSectionOf(k) ==
    [i \in DOMAIN calls[k].course_data |->
        [f \in DOMAIN calls[k].course_data[i] \cup {"section"} |->
            IF f = "section"
            THEN T_Section \o <<" ">> \o <<sections[calls[k].section][Len(sections[calls[k].section])]>>
            ELSE calls[k].course_data[i][f]]]

\* The results of the calls on courses of a subject, in the order of the calls.
ConcatenationFor(subject) ==
    ConcatAll([k \in DOMAIN calls |->
        IF subject_name(calls[k].label) = subject THEN WithSectionOf(k) ELSE <<>>])

AggregateIsConcatenation(agg) ==
    /\ calls = [k \in DOMAIN TriplesOf(site) |->
                  [section |-> TriplesOf(site)[k][1], type |-> TriplesOf(site)[k][2],
                   course |-> TriplesOf(site)[k][3],
                   label |-> site[TriplesOf(site)[k][1]][TriplesOf(site)[k][2]]
                                 [TriplesOf(site)[k][3]].label,
                   returned |-> TRUE, course_data |-> calls[k].course_data]]
    /\ {agg[i].subject : i \in DOMAIN agg} = {subject_name(calls[k].label) : k \in DOMAIN calls}
    /\ \A i, j \in DOMAIN agg : agg[i].subject = agg[j].subject => i = j
    /\ \A i \in DOMAIN agg : agg[i].records = ConcatenationFor(agg[i].subject)

\* The try block of run_scraper was left without an exception.
TraversalCompleted == pc = "finally" /\ ~failure.raised

\* run_scraper has just returned from a traversal without a failure.
ReturnedComplete == pc = "main_loop" /\ pub_i = 1 /\ uploads = <<>> /\ ~failure.raised

\* C12: in a traversal without a run-level failure the pager is called once
\* per (section, attendance type, course) triple in the nested order, and the
\* aggregate of each subject name is the concatenation, in the order of the
\* calls, of what the pager returned for the courses of that subject name,
\* each record tagged with the section of its triple.
C12_AggregateIsConcatenation ==
    /\ TraversalCompleted => AggregateIsConcatenation(all_subjects_data)
    /\ ReturnedComplete => AggregateIsConcatenation(all_data)

\* A traversal has returned an aggregate in which a subject has the records
\* of two calls in two sections, and another call returned no record.
C12_Witness ==
    /\ ReturnedComplete
    /\ \E k1, k2 \in DOMAIN calls :
         /\ k1 < k2
         /\ subject_name(calls[k1].label) = subject_name(calls[k2].label)
         /\ calls[k1].section # calls[k2].section
         /\ calls[k1].course_data # <<>>
         /\ calls[k2].course_data # <<>>
    /\ \E k \in DOMAIN calls : calls[k].course_data = <<>>

\* ------------------------------------------------ claims on the classifier

\* The status the precedence gives to a combination of the check marker, the
\* x marker and "the trimmed text is NA".
ByPrecedence(has_check, has_x, is_na) ==
    CASE has_check -> S_P
      [] ~has_check /\ has_x -> S_A
      [] ~has_check /\ ~has_x /\ is_na -> S_NA
      [] OTHER -> S_Unknown

\* The text is NA between any number of blanks.
IsNaText(text) ==
    \E i \in DOMAIN text :
        /\ i < Len(text)
        /\ text[i] = "N" /\ text[i + 1] = "A"
        /\ \A j \in DOMAIN text : j \notin {i, i + 1} => text[j] = " "

CellAt(column) == course[1].rows[1][column]

StatusOfCell(column) ==
    ByPrecedence(CellAt(column).check, CellAt(column).x, IsNaText(CellAt(column).text))

\* The call returned the record of the one row of the page.
CellsExtracted == pc = "returned" /\ Len(course) = 1 /\ Len(course[1].rows) = 1

\* C13: the status of a cell is P if it has the check marker, else A if it
\* has the x marker, else NA if its trimmed text is exactly NA, else Unknown;
\* it is the same whatever the other cell of the row holds.
C13_ClassifierPrecedence ==
    CellsExtracted =>
        /\ Len(all_student_records) = 1
        /\ all_student_records[1].attendance_data =
             << <<T_20_12_2023, StatusOfCell(3)>>, <<T_02_01_2024, StatusOfCell(4)>> >>

\* A row was extracted whose first date cell holds both markers and the text
\* NA, and whose second holds the text NA between blanks and no marker.
C13_Witness ==
    /\ CellsExtracted
    /\ all_student_records # <<>>
    /\ CellAt(3) = [check |-> TRUE, x |-> TRUE, text |-> T_NA]
    /\ CellAt(4) = [check |-> FALSE, x |-> FALSE, text |-> <<" ">> \o T_NA \o <<" ">>]

\* ------------------------------------------------ claims on the labels

\* The position of the last " (" of a text, 0 if it has none.
LastOpening(label) ==
    LET at == {i \in 1..(Len(label) - 1) : label[i] = " " /\ label[i + 1] = "("}
    IN  IF at = {} THEN 0 ELSE CHOOSE i \in at : \A j \in at : j <= i

\* The label without its trailing parenthetical, trimmed; the whole label,
\* trimmed, if it does not end in a parenthetical.
WithoutTrailingCode(label) ==
    LET t == Trim(label)
    IN  IF t # <<>> /\ t[Len(t)] = ")" /\ LastOpening(t) > 0
        THEN Trim(SubSeq(t, 1, LastOpening(t) - 1))
        ELSE t

\* C14: the subject name under which the records of a course are aggregated
\* is the label of the course without its trailing parenthetical course
\* code, trimmed; what stands before the trailing parenthetical, an earlier
\* parenthetical group included, is kept; the table name is the sanitized
\* subject name.
C14_SubjectNameKeepsPrefix ==
    /\ \A k \in DOMAIN calls :
         (calls[k].returned /\ pc = "course") =>
            \E i \in DOMAIN all_subjects_data :
                all_subjects_data[i].subject = WithoutTrailingCode(calls[k].label)
    /\ (pc = "drop" /\ Len(calls) = 1) =>
            upload.table_name = sanitize_table_name(WithoutTrailingCode(calls[1].label))

\* ------------------------------------------- claims on the phases of the pager

NoExtractionInPhase1 == pc = "seek_end" => (visited = <<>> /\ all_student_records = <<>>)

\* C15 as stated: in every run, runs with a failed lookup or wait included,
\* phase 1 extracts nothing and the first extraction is made on the last
\* page of the course.
C15_FirstExtractionOnLastPage ==
    /\ NoExtractionInPhase1
    /\ visited # <<>> => visited[1] = Len(course)

\* Phase 1 ends on a disabled Next only on the last page, and the first
\* extraction is made on the page phase 1 ended on.
Phase1SetsTheStart ==
    /\ (pc = "seek_end" /\ pc' = "walk_back" /\ nav' = "disabled") => view' = Len(course)
    /\ (visited = <<>> /\ visited' # <<>>) => (pc = "walk_back" /\ visited' = <<view>>)

\* C15: phase 1 extracts nothing; the first extraction of phase 2 is made on
\* the page the view shows when phase 1 ends, and that page is the last page
\* of the course in every run in which no lookup, check, click or wait failed.
C15_FirstExtractionOnLastPageWithoutFaults ==
    /\ [](NoExtractionInPhase1)
    /\ []((visited # <<>> /\ nav_faults = 0) => visited[1] = Len(course))
    /\ [][Phase1SetsTheStart]_vars

\* Phase 1 clicked Next at least once without a failure and phase 2 has made
\* its first extraction, on the last page.
C15_Witness ==
    /\ Len(visited) = 1
    /\ visited[1] = Len(course)
    /\ next_clicks >= 1
    /\ nav_faults = 0
    /\ all_student_records # <<>>

IsPrefix(s, t) == Len(s) <= Len(t) /\ SubSeq(t, 1, Len(s)) = s

\* A look at a control that did not end in a settled click.
BoundarySignal(o) ==
    o \in {"missing", "disabled", "check_error", "click_error", "wait_timeout"}

NavFailureEndsPhase ==
    /\ (pc = "seek_end" /\ BoundarySignal(nav')) =>
            (pc' = "walk_back" /\ all_student_records' = all_student_records)
    /\ (pc = "walk_back" /\ visited' # visited /\ BoundarySignal(nav')) =>
            (pc' = "returned" /\ IsPrefix(all_student_records, all_student_records'))
    /\ pc' = "raised" => (pc = "walk_back" /\ visited' = visited /\ nav' = nav)
    /\ IsPrefix(all_student_records, all_student_records')

\* C16: a Next or Previous control that is missing, disabled, fails its
\* enabled check or whose wait after the click times out never makes
\* get_data_for_course raise: the step ends the current phase, phase 2 ends
\* in the return, and no record extracted in the call is lost on the way (the
\* only raise of the call comes from the wait for the table or the in-page
\* script, before the control is looked at).
C16_NavFailureEndsPhase == [][NavFailureEndsPhase]_vars

\* The call returned the records of two pages after a failed look at
\* Previous, in a call whose phase 1 had ended on a failed look at Next.
C16_Witness ==
    /\ pc = "returned"
    /\ IsNavFault(nav)
    /\ nav_faults >= 2
    /\ Len(visited) >= 2
    /\ visited[1] < Len(course)
    /\ all_student_records # <<>>

\* ------------------------------------------------ claims on the tables

\* C17: the rows upload_to_supabase sends to the insert have pairwise
\* distinct Roll_No values (also for a rollNo that occurs in two sections or
\* with two names), so the insert cannot violate the primary key.
C17_InsertedRollNosDistinct ==
    pc = "insert" =>
        \A i, j \in DOMAIN upload.df.rows :
            upload.df.rows[i][T_Roll_No] = upload.df.rows[j][T_Roll_No] => i = j

\* C18: publishing a subject never removes what an earlier subject of the
\* same run published: the table of every subject whose publish ended with a
\* successful insert still holds the rows of that subject, because no two
\* subject names of a run have the same table name.
C18_NoClobbering ==
    \A u \in DOMAIN uploads :
        uploads[u].how = "inserted" =>
            /\ sanitize_table_name(uploads[u].subject) \in DOMAIN store
            /\ store[sanitize_table_name(uploads[u].subject)].rows =
                   PublishedTable(uploads[u].subject).rows

\* C20: a table the store held before the run is still there when the run
\* has ended, whatever failed while its subject was published.
C20_OldTableSurvives ==
    Finished => \A i \in DOMAIN all_data :
                    sanitize_table_name(all_data[i].subject) \in DOMAIN OldStore
                        => sanitize_table_name(all_data[i].subject) \in DOMAIN store

\* ------------------------------------------- claims on the aggregate at a failure

\* The aggregate holds, per subject name of a returned call, the results of
\* the returned calls on that subject name, whole and in order.
MadeOfCompleteResults(agg) ==
    /\ {agg[i].subject : i \in DOMAIN agg} =
           {subject_name(calls[k].label) : k \in {c \in DOMAIN calls : calls[c].returned}}
    /\ \A i, j \in DOMAIN agg : agg[i].subject = agg[j].subject => i = j
    /\ \A i \in DOMAIN agg : agg[i].records = ConcatenationFor(agg[i].subject)

\* run_scraper is running.
InRun ==
    pc \in {"filters", "section", "type", "course", "seek_end", "walk_back",
            "returned", "raised", "except", "finally"}

\* run_scraper returned its aggregate to __main__.
RunReturned == pub_i >= 1

\* C19: at every point of the traversal, and in what run_scraper returns
\* after a failure, the aggregate of each subject is the concatenation of
\* whole results of get_data_for_course; the records extracted in a call
\* that raised are not in it.
C19_AggregateOfCompleteResults ==
    /\ InRun => MadeOfCompleteResults(all_subjects_data)
    /\ RunReturned => MadeOfCompleteResults(all_data)

\* run_scraper returned after get_data_for_course raised on a later page of a
\* course, and the aggregate holds the result of an earlier call.
C19_Witness ==
    /\ RunReturned
    /\ failure.raised
    /\ all_data # <<>>
    /\ calls # <<>>
    /\ ~calls[Len(calls)].returned
    /\ failure.abandoned # <<>>
    /\ \E i \in DOMAIN all_data :
         all_data[i].subject = subject_name(calls[Len(calls)].label)

====
